---- MODULE Spec2Model ----
(***************************************************************************)
(* Keypoint R-CNN head of detectron2-ResNeSt                               *)
(* (detectron2/modeling/roi_heads/keypoint_head.py).                       *)
(*                                                                         *)
(* Tensors are records [shape, data] with the data in row-major order.     *)
(* The numeric primitives of torch (F.cross_entropy, the keypoint encoder  *)
(* and decoder) are kept symbolic: the model records exactly which rows,   *)
(* targets and boxes the code hands to them, and in which order.           *)
(* Real numbers are exact fractions <<numerator, denominator>>.            *)
(***************************************************************************)
EXTENDS Integers, Sequences, FiniteSets, TLC

VARIABLES TOTAL_SKIPPED, storage, head, last, pc, tmp, reported

vars == <<TOTAL_SKIPPED, storage, head, last, pc, tmp, reported>>

(***************************************************************************)
(* Bounds of the exploration.                                              *)
(***************************************************************************)
MaxImages == 3
MaxR == 3
MaxSkipped == 2
NThreads == 3

(***************************************************************************)
(* Configuration values read by the head (cfg.MODEL...).                   *)
(***************************************************************************)
num_keypoints == 2
keypoint_side_len == 2
batch_size_per_image == 4
positive_sample_fraction == <<1, 4>>
LossWeights == {<<1, 2>>}

(***************************************************************************)
(* Fractions.                                                              *)
(***************************************************************************)
None == <<0, 0>>
RInt(n) == <<n, 1>>
RMul(a, b) == <<a[1] * b[1], a[2] * b[2]>>
REq(a, b) == a[1] * b[2] = b[1] * a[2]
RPos(a) == a[2] # 0 /\ a[1] * a[2] > 0
RZero(a) == a[2] # 0 /\ a[1] = 0

(***************************************************************************)
(* Generic sequence helpers.                                               *)
(***************************************************************************)
RECURSIVE SumSeq(_)
SumSeq(s) == IF Len(s) = 0 THEN 0 ELSE Head(s) + SumSeq(Tail(s))

\* cat(list, dim=0): the concatenation of the listed sequences, in list order.
RECURSIVE cat(_)
cat(ss) == IF Len(ss) = 0 THEN <<>> ELSE Head(ss) \o cat(Tail(ss))

\* tensor.view(-1) of a 2-D tensor given as a sequence of rows: row-major.
view_flat_colmajor(m) ==
    IF Len(m) = 0 THEN <<>>
    ELSE [j \in 1..(Len(m) * Len(m[1])) |->
             m[((j - 1) % Len(m)) + 1][((j - 1) \div Len(m)) + 1]]

view_flat(m) == cat(m)

\* torch.nonzero(v).squeeze(1): the 0-based positions of the nonzero entries,
\* ascending.
RECURSIVE nonzero_from(_, _)
nonzero_from(v, i) ==
    IF i > Len(v) THEN <<>>
    ELSE (IF v[i] # 0 THEN <<i - 1>> ELSE <<>>) \o nonzero_from(v, i + 1)

nonzero_onebased(v) == [i \in 1..Len(nonzero_from(v, 1)) |-> nonzero_from(v, 1)[i] + 1]

nonzero(v) == nonzero_from(v, 1)

\* .to(dtype=torch.uint8) of a boolean tensor.
to_uint8(v) == [i \in 1..Len(v) |-> IF v[i] THEN 1 ELSE 0]

(***************************************************************************)
(* Tensors of logits: shape (N, K, H, W), data row-major.                  *)
(***************************************************************************)
numel(t) == Len(t.data)

tensor_sum(t) == SumSeq(t.data)

\* pred_keypoint_logits.view(N * K, H * W)[j] for a 0-based row index j.
view_row(t, j) ==
    LET hw == t.shape[3] * t.shape[4]
    IN  SubSeq(t.data, j * hw + 1, (j + 1) * hw)

(***************************************************************************)
(* Instances.  An Instances object of one image is a record                *)
(*   objs               one entry per instance: the encoder's output for   *)
(*                      its gt_keypoints (K pairs <<bin, visible>>) and    *)
(*                      its box                                            *)
(*   has_pred_keypoints whether the field pred_keypoints is set            *)
(*   pred_keypoints     the field's value                                  *)
(***************************************************************************)
Bins == keypoint_side_len * keypoint_side_len

VisPatterns == {{}, {1}, 1..num_keypoints}

GtKeypoints(vis) ==
    [k \in 1..num_keypoints |-> <<(k + Cardinality(vis)) % Bins, k \in vis>>]

BoxIds == {1, 2}

TrainObjs == {[gt_keypoints |-> GtKeypoints(v), box |-> 1] : v \in VisPatterns}

PredObjs == {[gt_keypoints |-> <<>>, box |-> b] : b \in BoxIds}

MkInstances(objs) ==
    [objs |-> objs, has_pred_keypoints |-> FALSE, pred_keypoints |-> <<>>]

\* All lists of m images holding at most r instances in total.
RECURSIVE BatchesOf(_, _, _)
BatchesOf(pool, m, r) ==
    IF m = 0 THEN {<<>>}
    ELSE UNION {{Append(b, MkInstances(objs)) :
                    b \in BatchesOf(pool, m - 1, r - n), objs \in [1..n -> pool]}
                : n \in 0..r}

TrainBatches == UNION {BatchesOf(TrainObjs, m, MaxR) : m \in 0..MaxImages}

PredBatches == UNION {BatchesOf(PredObjs, m, MaxR) : m \in 1..MaxImages}

\* len(instances_per_image)
len(instances_per_image) == Len(instances_per_image.objs)

TotalInstances(instances) ==
    SumSeq([i \in 1..Len(instances) |-> len(instances[i])])

(***************************************************************************)
(* Training loss stage: keypoint_rcnn_loss.                                *)
(***************************************************************************)
\* keypoints.to_heatmap(proposal_boxes.tensor, keypoint_side_len): two
\* (#instances, K) arrays, the bin index and the validity of every keypoint.
to_heatmap(instances_per_image) ==
    LET objs == instances_per_image.objs
    IN  [heatmaps |-> [i \in 1..Len(objs) |->
                          [k \in 1..num_keypoints |-> objs[i].gt_keypoints[k][1]]],
         valid    |-> [i \in 1..Len(objs) |->
                          [k \in 1..num_keypoints |-> objs[i].gt_keypoints[k][2]]]]

\* The loop over the images: the lists `heatmaps` and `valid`, one flattened
\* entry per image that has at least one instance.
RECURSIVE per_image_targets(_)
per_image_targets(instances) ==
    IF Len(instances) = 0 THEN <<>>
    ELSE IF len(Head(instances)) = 0 THEN per_image_targets(Tail(instances))
    ELSE LET hv == to_heatmap(Head(instances))
         IN  <<[heatmaps |-> view_flat(hv.heatmaps),
                valid    |-> view_flat(hv.valid)]>>
             \o per_image_targets(Tail(instances))

\* The condition of the degenerate path.
skip_condition_no_valid_check(heatmaps, valid) == Len(heatmaps) = 0

skip_condition(heatmaps, valid) == Len(heatmaps) = 0 \/ Len(valid) = 0

\* A scalar loss tensor:
\*   kind "scaled_sum":    the number `value`
\*   kind "cross_entropy": F.cross_entropy(rows, targets, reduction="sum"),
\*                         divided by `div`; one term per entry of rows
\* and in both cases multiplied by `mul`.
NoLoss ==
    [kind |-> "none", value |-> RInt(0), rows |-> <<>>, targets |-> <<>>,
     div |-> RInt(1), mul |-> RInt(1)]

\* pred_keypoint_logits.sum() * 0
skip_loss_unscaled(pred_keypoint_logits) ==
    [NoLoss EXCEPT !.kind = "scaled_sum",
                   !.value = RInt(tensor_sum(pred_keypoint_logits) * 1)]

skip_loss(pred_keypoint_logits) ==
    [NoLoss EXCEPT !.kind = "scaled_sum",
                   !.value = RInt(tensor_sum(pred_keypoint_logits) * 0)]

\* F.cross_entropy(pred_keypoint_logits[valid], keypoint_targets[valid],
\* reduction="sum") on the logits viewed as (N * K, H * W).
cross_entropy_sum(pred_keypoint_logits, keypoint_targets, valid) ==
    [NoLoss EXCEPT !.kind = "cross_entropy",
                   !.rows = [i \in 1..Len(valid) |->
                                view_row(pred_keypoint_logits, valid[i])],
                   !.targets = [i \in 1..Len(valid) |->
                                   keypoint_targets[valid[i] + 1]]]

\* if normalizer is None: normalizer = valid.numel()
effective_normalizer_always_visible(normalizer, valid) == RInt(Len(valid))

effective_normalizer(normalizer, valid) ==
    IF normalizer = None THEN RInt(Len(valid)) ELSE normalizer

keypoint_rcnn_loss(pred_keypoint_logits, instances, normalizer) ==
    LET lists == per_image_targets(instances)
        heatmaps == [i \in 1..Len(lists) |-> lists[i].heatmaps]
        keypoint_targets == IF Len(heatmaps) > 0 THEN cat(heatmaps) ELSE <<>>
        valid == IF Len(heatmaps) > 0
                 THEN nonzero(to_uint8(cat([i \in 1..Len(lists) |-> lists[i].valid])))
                 ELSE <<>>
    IN  IF skip_condition(heatmaps, valid)
        THEN [skipped |-> TRUE,
              loss |-> skip_loss(pred_keypoint_logits),
              keypoint_targets |-> keypoint_targets, valid |-> valid]
        ELSE [skipped |-> FALSE,
              loss |-> [cross_entropy_sum(pred_keypoint_logits, keypoint_targets, valid)
                           EXCEPT !.div = effective_normalizer(normalizer, valid)],
              keypoint_targets |-> keypoint_targets, valid |-> valid]

\* _TOTAL_SKIPPED += 1
increment_restart(total) == 1

increment(total) == total + 1

\* storage.put_scalar("kpts_num_skipped_batches", _TOTAL_SKIPPED, ...)
put_scalar(events, name, value) == Append(events, <<name, value>>)

(***************************************************************************)
(* Inference decode stage: keypoint_rcnn_inference.                        *)
(***************************************************************************)
\* cat([b.pred_boxes.tensor for b in pred_instances], dim=0)
bboxes_flat(pred_instances) ==
    cat([i \in 1..Len(pred_instances) |->
            [j \in 1..len(pred_instances[i]) |-> pred_instances[i].objs[j].box]])

\* heatmaps_to_keypoints(logits, boxes): an (R, K, 4) array; entry (r, k, c)
\* is column c of the decoding of heatmap (r, k) inside box r.
heatmaps_to_keypoints(logits, boxes) ==
    [r \in 1..logits.shape[1] |->
        [k \in 1..logits.shape[2] |->
            [c \in 1..4 |->
                <<c - 1, view_row(logits, (r - 1) * logits.shape[2] + (k - 1)), boxes[r]>>]]]

\* keypoint_results[:, :, [0, 1, 3]]
select_columns_012(keypoint_results) ==
    [r \in 1..Len(keypoint_results) |->
        [k \in 1..Len(keypoint_results[r]) |->
            <<keypoint_results[r][k][1], keypoint_results[r][k][2],
              keypoint_results[r][k][3]>>]]

select_columns(keypoint_results) ==
    [r \in 1..Len(keypoint_results) |->
        [k \in 1..Len(keypoint_results[r]) |->
            <<keypoint_results[r][k][1], keypoint_results[r][k][2],
              keypoint_results[r][k][4]>>]]

\* tensor.split(sizes, dim=0)
RECURSIVE split_skip_empty(_, _)
split_skip_empty(rows, sizes) ==
    IF Len(sizes) = 0 THEN <<>>
    ELSE IF Head(sizes) = 0 THEN split_skip_empty(rows, Tail(sizes))
    ELSE <<SubSeq(rows, 1, Head(sizes))>>
         \o split_skip_empty(SubSeq(rows, Head(sizes) + 1, Len(rows)), Tail(sizes))

RECURSIVE split(_, _)
split(rows, sizes) ==
    IF Len(sizes) = 0 THEN <<>>
    ELSE <<SubSeq(rows, 1, Head(sizes))>>
         \o split(SubSeq(rows, Head(sizes) + 1, Len(rows)), Tail(sizes))

Min(a, b) == IF a < b THEN a ELSE b

\* The instance collections after the call (they are mutated in place).
keypoint_rcnn_inference(pred_keypoint_logits, pred_instances) ==
    LET keypoint_results == heatmaps_to_keypoints(pred_keypoint_logits,
                                                  bboxes_flat(pred_instances))
        num_instances_per_image ==
            [i \in 1..Len(pred_instances) |-> len(pred_instances[i])]
        chunks == split(select_columns(keypoint_results), num_instances_per_image)
        zipped == Min(Len(chunks), Len(pred_instances))
    IN  [i \in 1..Len(pred_instances) |->
            IF i <= zipped
            THEN [pred_instances[i] EXCEPT !.has_pred_keypoints = TRUE,
                                           !.pred_keypoints = chunks[i]]
            ELSE pred_instances[i]]

(***************************************************************************)
(* Spatial attention gate.                                                 *)
(***************************************************************************)
\* The names bound in the module's namespace: its imports and its top-level
\* definitions.
ModuleNames ==
    {"List", "torch", "nn", "F",
     "Conv2d", "ConvTranspose2d", "ShapeSpec", "cat", "interpolate",
     "Instances", "heatmaps_to_keypoints", "get_event_storage", "Registry",
     "_TOTAL_SKIPPED", "ROI_KEYPOINT_HEAD_REGISTRY", "build_keypoint_head",
     "keypoint_rcnn_loss", "keypoint_rcnn_inference", "_NewEmptyTensorOp",
     "Max", "SpatialAttention", "BaseKeypointRCNNHead",
     "KRCNNConvDeconvUpsampleHead"}

\* SpatialAttention.__init__(kernel_size): the exception it ends with, or
\* "none", and the padding of the gate's convolution.
SpatialAttention_init(kernel_size) ==
    IF kernel_size \notin {3, 7}
    THEN [exc |-> "AssertionError", kernel_size |-> kernel_size, padding |-> 0]
    ELSE LET padding == IF kernel_size = 7 THEN 3 ELSE 1
         IN  IF "weight_init" \notin ModuleNames
             THEN [exc |-> "NameError", kernel_size |-> kernel_size, padding |-> padding]
             ELSE [exc |-> "none", kernel_size |-> kernel_size, padding |-> padding]

\* Output shapes of the layers, from input shape s = (R, C, H, W).
conv2d_shape(s, out_channels, kernel, stride, padding) ==
    <<s[1], out_channels,
      ((s[3] + 2 * padding - kernel) \div stride) + 1,
      ((s[4] + 2 * padding - kernel) \div stride) + 1>>

conv_transpose2d_shape(s, out_channels, kernel, stride, padding) ==
    <<s[1], out_channels,
      (s[3] - 1) * stride - 2 * padding + kernel,
      (s[4] - 1) * stride - 2 * padding + kernel>>

interpolate_shape(s, scale_factor) ==
    <<s[1], s[2], s[3] * scale_factor, s[4] * scale_factor>>

\* Max(x): both branches keep one channel.
Max_shape(s) == <<s[1], 1, s[3], s[4]>>

\* SpatialAttention.forward: x * sigmoid(conv(cat([avg, max]))); the product
\* broadcasts the one-channel gate over the channels of x.
SpatialAttention_forward_shape(gate, s) ==
    LET avg_out == <<s[1], 1, s[3], s[4]>>
        max_out == Max_shape(s)
        scale == conv2d_shape(<<s[1], avg_out[2] + max_out[2], s[3], s[4]>>, 1,
                              gate.kernel_size, 1, gate.padding)
    IN  <<s[1], s[2], scale[3], scale[4]>>

(***************************************************************************)
(* The head controller and the concrete head.                              *)
(***************************************************************************)
NoGate == [exc |-> "none", kernel_size |-> 0, padding |-> 0]

NoHead ==
    [kind |-> "none", loss_weight |-> RInt(1), normalize_by_visible_keypoints |-> FALSE,
     num_keypoints |-> 0, normalizer_per_img |-> RInt(0), training |-> FALSE,
     blocks |-> <<>>, spatialAtt |-> NoGate]

ConvDimsChoices == {<<>>, <<8>>, <<8, 4>>}

Cfgs ==
    [LOSS_WEIGHT : LossWeights,
     NORMALIZE_LOSS_BY_VISIBLE_KEYPOINTS : BOOLEAN,
     CONV_DIMS : ConvDimsChoices]

\* BaseKeypointRCNNHead.__init__; nn.Module starts in training mode.
BaseKeypointRCNNHead_init(kind, cfg) ==
    [NoHead EXCEPT
        !.kind = kind,
        !.loss_weight = cfg.LOSS_WEIGHT,
        !.normalize_by_visible_keypoints = cfg.NORMALIZE_LOSS_BY_VISIBLE_KEYPOINTS,
        !.num_keypoints = num_keypoints,
        !.normalizer_per_img =
            RMul(RInt(num_keypoints * batch_size_per_image), positive_sample_fraction),
        !.training = TRUE]

\* KRCNNConvDeconvUpsampleHead.__init__: the base constructor, the conv
\* blocks, then the attention gate with its default kernel size.
KRCNNConvDeconvUpsampleHead_init(cfg) ==
    LET base == BaseKeypointRCNNHead_init("KRCNN", cfg)
        gate == SpatialAttention_init(3)
    IN  IF gate.exc # "none"
        THEN [exc |-> gate.exc, head |-> NoHead]
        ELSE [exc |-> "none",
              head |-> [base EXCEPT !.blocks = cfg.CONV_DIMS, !.spatialAtt = gate]]

\* The constructor of each kind of head: the base class, the registered
\* concrete head, and a subclass that only overrides layers().
construct(kind, cfg) ==
    IF kind = "KRCNN" THEN KRCNNConvDeconvUpsampleHead_init(cfg)
    ELSE [exc |-> "none", head |-> BaseKeypointRCNNHead_init(kind, cfg)]

\* Shape of KRCNNConvDeconvUpsampleHead.layers(x).
RECURSIVE blocks_shape(_, _)
blocks_shape(blocks, s) ==
    IF Len(blocks) = 0 THEN s
    ELSE blocks_shape(Tail(blocks), conv2d_shape(s, Head(blocks), 3, 1, 1))

KRCNN_layers_shape(h, s) ==
    LET a == SpatialAttention_forward_shape(h.spatialAtt, s)
        b == blocks_shape(h.blocks, a)
        d == conv_transpose2d_shape(b, h.num_keypoints, 4, 2, (4 \div 2) - 1)
    IN  interpolate_shape(d, 2)

NoTensor == [shape |-> <<0, 0, 0, 0>>, data |-> <<>>]

\* A tensor of the given shape whose entries are all different.
Tensor(shape, seed) ==
    [shape |-> shape,
     data |-> [i \in 1..(shape[1] * shape[2] * shape[3] * shape[4]) |-> seed + i]]

\* self.layers(x): the base class raises; the concrete head computes logits;
\* a subclass overriding layers() returns logits (R, K, S, S).
layers(h, x) ==
    IF h.kind = "Base" THEN [exc |-> "NotImplementedError", logits |-> NoTensor]
    ELSE IF h.kind = "KRCNN"
    THEN [exc |-> "none", logits |-> Tensor(KRCNN_layers_shape(h, x.shape), x.seed)]
    ELSE [exc |-> "none",
          logits |-> Tensor(<<x.shape[1], h.num_keypoints,
                              keypoint_side_len, keypoint_side_len>>, x.seed)]

\* What one call leaves behind for its caller.
NoCall ==
    [op |-> "none", exc |-> "none", kind |-> "none", cfg_conv_dims |-> <<>>,
     kernel_size |-> 0, padding |-> 0,
     training |-> FALSE, instances |-> <<>>, result_instances |-> <<>>,
     returned |-> "none", loss_keys |-> {}, loss |-> NoLoss, skipped |-> FALSE,
     keypoint_targets |-> <<>>, valid |-> <<>>, logits |-> NoTensor,
     normalizer |-> None, boxes |-> <<>>]

\* loss * self.loss_weight
scale(loss, w) ==
    IF loss.kind = "scaled_sum" THEN [loss EXCEPT !.value = RMul(@, w)]
    ELSE [loss EXCEPT !.mul = RMul(@, w)]

\* The normalizer forward() passes to the loss stage.
forward_normalizer_swapped(h, num_images) ==
    IF ~h.normalize_by_visible_keypoints THEN None
    ELSE RMul(RInt(num_images), h.normalizer_per_img)

forward_normalizer(h, num_images) ==
    IF h.normalize_by_visible_keypoints THEN None
    ELSE RMul(RInt(num_images), h.normalizer_per_img)

\* The two branches of forward() after layers() returned the logits.
forward_training(h, call, logits, instances) ==
    LET num_images == Len(instances)
        normalizer == forward_normalizer(h, num_images)
        r == keypoint_rcnn_loss(logits, instances, normalizer)
    IN  [call EXCEPT !.returned = "losses",
                     !.loss_keys = {"loss_keypoint"},
                     !.loss = scale(r.loss, h.loss_weight),
                     !.skipped = r.skipped,
                     !.keypoint_targets = r.keypoint_targets,
                     !.valid = r.valid,
                     !.logits = logits,
                     !.normalizer = normalizer]

forward_inference(h, call, logits, instances) ==
    [call EXCEPT !.returned = "instances",
                 !.logits = logits,
                 !.boxes = bboxes_flat(instances),
                 !.result_instances = keypoint_rcnn_inference(logits, instances)]

\* BaseKeypointRCNNHead.forward(x, instances)
forward_decode_in_training(h, x, instances) ==
    LET l == layers(h, x)
        call == [NoCall EXCEPT !.op = "forward", !.kind = h.kind,
                               !.training = h.training, !.instances = instances,
                               !.result_instances = instances]
    IN  IF l.exc # "none" THEN [call EXCEPT !.exc = l.exc]
        ELSE IF h.training
        THEN [forward_training(h, call, l.logits, instances) EXCEPT
                 !.result_instances = keypoint_rcnn_inference(l.logits, instances)]
        ELSE forward_inference(h, call, l.logits, instances)

forward(h, x, instances) ==
    LET l == layers(h, x)
        call == [NoCall EXCEPT !.op = "forward", !.kind = h.kind,
                               !.training = h.training, !.instances = instances,
                               !.result_instances = instances]
    IN  IF l.exc # "none" THEN [call EXCEPT !.exc = l.exc]
        ELSE IF h.training
        THEN forward_training(h, call, l.logits, instances)
        ELSE forward_inference(h, call, l.logits, instances)

(***************************************************************************)
(* The state machine of one process.                                       *)
(*   TOTAL_SKIPPED  the module global _TOTAL_SKIPPED                       *)
(*   storage        the scalars put into the event storage, in order       *)
(*   head           the head object the caller holds (NoHead: none yet)    *)
(*   last           what the most recent call left behind for its caller   *)
(*   pc, tmp, reported   threads that call keypoint_rcnn_loss concurrently *)
(***************************************************************************)
Threads == 1..NThreads

KernelSizes == {1, 3, 5, 7}

HeadKinds == {"Base", "Sub", "KRCNN"}

Seeds == {3}

InputShapes ==
    {<<r, c, hw[1], hw[2]>> : r \in 0..MaxR, c \in {1, 3}, hw \in {<<1, 1>>, <<2, 3>>, <<7, 7>>}}

SkipName == "kpts_num_skipped_batches"

Init ==
    /\ TOTAL_SKIPPED = 0
    /\ storage = <<>>
    /\ head = NoHead
    /\ last = NoCall
    /\ pc = [t \in Threads |-> "idle"]
    /\ tmp = [t \in Threads |-> 0]
    /\ reported = [t \in Threads |-> 0]

\* SpatialAttention(kernel_size)
NewSpatialAttention(kernel_size) ==
    /\ last = NoCall
    /\ LET g == SpatialAttention_init(kernel_size)
       IN  last' = [NoCall EXCEPT !.op = "SpatialAttention", !.exc = g.exc,
                                  !.kernel_size = g.kernel_size, !.padding = g.padding]
    /\ UNCHANGED <<TOTAL_SKIPPED, storage, head, pc, tmp, reported>>

\* head = <kind>(cfg, input_shape); the name is bound only if the
\* constructor returns.
NewHead(kind, cfg) ==
    /\ last = NoCall
    /\ LET c == construct(kind, cfg)
       IN  /\ head' = IF c.exc = "none" THEN c.head ELSE head
           /\ last' = [NoCall EXCEPT !.op = "construct", !.exc = c.exc, !.kind = kind,
                                     !.cfg_conv_dims = cfg.CONV_DIMS]
    /\ UNCHANGED <<TOTAL_SKIPPED, storage, pc, tmp, reported>>

\* head.train(mode)
SetTraining(mode) ==
    /\ last = NoCall
    /\ head.kind # "none"
    /\ head.training # mode
    /\ head' = [head EXCEPT !.training = mode]
    /\ UNCHANGED <<TOTAL_SKIPPED, storage, last, pc, tmp, reported>>

\* head(x, instances): the whole call, the degenerate path's counter update
\* and report included.  The features have one row per instance.
Forward(seed, instances) ==
    /\ last = NoCall
    /\ head.kind # "none"
    /\ head.training => TOTAL_SKIPPED < MaxSkipped
    /\ LET x == [shape |-> <<TotalInstances(instances), 1, 1, 1>>, seed |-> seed]
           r == forward(head, x, instances)
       IN  /\ last' = r
           /\ TOTAL_SKIPPED' = IF r.skipped THEN increment(TOTAL_SKIPPED) ELSE TOTAL_SKIPPED
           /\ storage' = IF r.skipped
                         THEN put_scalar(storage, SkipName, TOTAL_SKIPPED')
                         ELSE storage
    /\ UNCHANGED <<head, pc, tmp, reported>>

\* A call in training mode, with ground-truth instances.
ForwardTraining(seed, instances) == head.training /\ Forward(seed, instances)

\* A call in evaluation mode, with predicted instances of at least one image.
ForwardInference(seed, instances) == ~head.training /\ Forward(seed, instances)

\* The caller drops the result of the call.
Discard ==
    /\ last # NoCall
    /\ last' = NoCall
    /\ UNCHANGED <<TOTAL_SKIPPED, storage, head, pc, tmp, reported>>

Next ==
    \/ \E k \in KernelSizes : NewSpatialAttention(k)
    \/ \E kind \in HeadKinds, cfg \in Cfgs : NewHead(kind, cfg)
    \/ \E mode \in BOOLEAN : SetTraining(mode)
    \/ \E seed \in Seeds, instances \in TrainBatches : ForwardTraining(seed, instances)
    \/ \E seed \in Seeds, instances \in PredBatches : ForwardInference(seed, instances)
    \/ Discard

Spec == Init /\ [][Next]_vars

(***************************************************************************)
(* Concurrent calls of keypoint_rcnn_loss from several threads.  The       *)
(* interpreter may switch threads between the read and the write of        *)
(* `_TOTAL_SKIPPED += 1`, and before the read that put_scalar is given.    *)
(***************************************************************************)
ThreadBatches == UNION {BatchesOf(TrainObjs, m, 1) : m \in 0..1}

\* Lines up to the test of the degenerate path.
T_Call(t, seed, instances) ==
    /\ pc[t] = "idle"
    /\ LET logits == Tensor(<<TotalInstances(instances), num_keypoints,
                              keypoint_side_len, keypoint_side_len>>, seed)
           r == keypoint_rcnn_loss(logits, instances, None)
       IN  pc' = [pc EXCEPT ![t] = IF r.skipped THEN "load" ELSE "done"]
    /\ UNCHANGED <<TOTAL_SKIPPED, storage, head, last, tmp, reported>>

\* _TOTAL_SKIPPED += 1: read the global
T_Load(t) ==
    /\ pc[t] = "load"
    /\ tmp' = [tmp EXCEPT ![t] = TOTAL_SKIPPED]
    /\ pc' = [pc EXCEPT ![t] = "store"]
    /\ UNCHANGED <<TOTAL_SKIPPED, storage, head, last, reported>>

\* _TOTAL_SKIPPED += 1: write the global
T_Store(t) ==
    /\ pc[t] = "store"
    /\ TOTAL_SKIPPED' = increment(tmp[t])
    /\ pc' = [pc EXCEPT ![t] = "report"]
    /\ UNCHANGED <<storage, head, last, tmp, reported>>

\* storage.put_scalar(..., _TOTAL_SKIPPED, ...): reads the global again
T_Report(t) ==
    /\ pc[t] = "report"
    /\ storage' = put_scalar(storage, SkipName, TOTAL_SKIPPED)
    /\ reported' = [reported EXCEPT ![t] = TOTAL_SKIPPED]
    /\ pc' = [pc EXCEPT ![t] = "done"]
    /\ UNCHANGED <<TOTAL_SKIPPED, head, last, tmp>>

NextConc ==
    \/ \E t \in Threads, seed \in Seeds, instances \in ThreadBatches : T_Call(t, seed, instances)
    \/ \E t \in Threads : T_Load(t)
    \/ \E t \in Threads : T_Store(t)
    \/ \E t \in Threads : T_Report(t)

SpecConc == Init /\ [][NextConc]_vars

(***************************************************************************)
(* Vocabulary of the properties, stated on the inputs of a call.           *)
(***************************************************************************)
\* The instances of a batch in image order.
FlatObjs(instances) == cat([i \in 1..Len(instances) |-> instances[i].objs])

\* The valid (instance, keypoint) pairs of a batch, instances counted from 0
\* over the whole batch.
ValidPairs(instances) ==
    {p \in (0..(Len(FlatObjs(instances)) - 1)) \X (0..(num_keypoints - 1)) :
        FlatObjs(instances)[p[1] + 1].gt_keypoints[p[2] + 1][2]}

NoValidKeypoint(instances) == ValidPairs(instances) = {}

\* Number of instances in the images before image i.
Offset(instances, i) == SumSeq([m \in 1..(i - 1) |-> len(instances[m])])

TrainingCall == last.op = "forward" /\ last.exc = "none" /\ last.training

InferenceCall == last.op = "forward" /\ last.exc = "none" /\ ~last.training

NormalizerChoices == {None, RInt(0), RInt(1), <<3, 2>>, RInt(8)}

ZeroLoss(loss) == loss.kind = "scaled_sum" /\ RZero(loss.value)

(***************************************************************************)
(* C1: a training-loss call whose instance list is empty, whose images all *)
(* have zero instances, or none of whose keypoints is valid does not raise *)
(* and returns a loss that is exactly zero, whatever normalizer is passed, *)
(* and the loss the controller returns after multiplying by loss_weight is *)
(* exactly zero as well.                                                   *)
(***************************************************************************)
C1_ZeroLossOnDegenerateBatch ==
    (last.op = "forward" /\ last.kind # "Base" /\ last.training
        /\ NoValidKeypoint(last.instances))
    => /\ last.exc = "none"
       /\ last.skipped
       /\ ZeroLoss(last.loss)
       /\ \A n \in NormalizerChoices :
             LET r == keypoint_rcnn_loss(last.logits, last.instances, n)
             IN  r.skipped /\ ZeroLoss(r.loss)

C1_Witness ==
    /\ TrainingCall
    /\ NoValidKeypoint(last.instances)
    /\ Len(last.instances) = 2
    /\ TotalInstances(last.instances) >= 2
    /\ tensor_sum(last.logits) # 0
    /\ last.normalizer # None
    /\ head.loss_weight = <<1, 2>>

(***************************************************************************)
(* C2: the skip counter starts at 0 and never decreases; a degenerate      *)
(* training-loss call adds exactly 1 and reports the new value once under  *)
(* the name kpts_num_skipped_batches; every other call leaves the counter  *)
(* and the reports unchanged; so the counter is the number of degenerate   *)
(* calls made so far, which is the number of reports.                      *)
(***************************************************************************)
C2_Counted ==
    /\ TOTAL_SKIPPED = Len(storage)
    /\ \A i \in 1..Len(storage) : storage[i] = <<SkipName, i>>

C2_Step ==
    /\ TOTAL_SKIPPED' >= TOTAL_SKIPPED
    /\ IF /\ last = NoCall
          /\ last'.op = "forward" /\ last'.exc = "none" /\ last'.training
          /\ NoValidKeypoint(last'.instances)
       THEN /\ TOTAL_SKIPPED' = TOTAL_SKIPPED + 1
            /\ storage' = Append(storage, <<SkipName, TOTAL_SKIPPED + 1>>)
       ELSE /\ TOTAL_SKIPPED' = TOTAL_SKIPPED
            /\ storage' = storage

\* C2: the counter starts at 0, equals the number of reports in every state,
\* and every step changes it as C2_Step says.
C2_SkipCounterCountsDegenerateCalls ==
    /\ TOTAL_SKIPPED = 0
    /\ []C2_Counted
    /\ [][C2_Step]_vars

C2_Witness ==
    /\ TrainingCall
    /\ last.skipped
    /\ TOTAL_SKIPPED = 2
    /\ Len(storage) = 2

(***************************************************************************)
(* C3: on the non-degenerate training path the loss is the cross-entropy   *)
(* summed over the valid rows, divided by the normalizer and multiplied by *)
(* loss_weight; an explicit normalizer is used as is, otherwise the        *)
(* normalizer is the number of valid rows in visible mode, and             *)
(* num_keypoints * batch_size_per_image * positive_fraction * (number of   *)
(* images, empty ones included) in fixed mode.                             *)
(***************************************************************************)
C3_ExpectedNormalizer ==
    IF head.normalize_by_visible_keypoints
    THEN RInt(Cardinality(ValidPairs(last.instances)))
    ELSE RMul(RInt(num_keypoints * batch_size_per_image * Len(last.instances)),
              positive_sample_fraction)

\* C3: the non-degenerate loss is the cross-entropy sum over the valid rows,
\* divided by the selected normalizer and multiplied by loss_weight.
C3_NormalizedWeightedLoss ==
    (TrainingCall /\ ~NoValidKeypoint(last.instances))
    => /\ last.loss.kind = "cross_entropy"
       /\ Len(last.loss.rows) = Cardinality(ValidPairs(last.instances))
       /\ REq(last.loss.div, C3_ExpectedNormalizer)
       /\ REq(last.loss.mul, head.loss_weight)
       /\ \A n \in NormalizerChoices :
             LET r == keypoint_rcnn_loss(last.logits, last.instances, n)
             IN  /\ r.loss.kind = "cross_entropy"
                 /\ r.loss.rows = last.loss.rows
                 /\ r.loss.mul = RInt(1)
                 /\ r.loss.div = IF n = None
                                 THEN RInt(Cardinality(ValidPairs(last.instances)))
                                 ELSE n

C3_Witness ==
    /\ TrainingCall
    /\ ~last.skipped
    /\ ~head.normalize_by_visible_keypoints
    /\ head.loss_weight = <<1, 2>>
    /\ Len(last.instances) = 3
    /\ \E i \in 1..3 : len(last.instances[i]) = 0
    /\ Cardinality(ValidPairs(last.instances)) = 3

(***************************************************************************)
(* C4: the decode stage attaches to image i a pred_keypoints array of      *)
(* exactly n_i rows: the decoded rows at flattened positions               *)
(* [n_1+...+n_(i-1), n_1+...+n_i), in order, reduced to the decoder's      *)
(* columns 0, 1 and 3, each decoded from its own heatmap and its own box;  *)
(* every image, also one without instances, receives the field.            *)
(***************************************************************************)
C4_PerImageKeypoints ==
    InferenceCall
    => /\ Len(last.result_instances) = Len(last.instances)
       /\ last.boxes = [p \in 1..TotalInstances(last.instances) |->
                           FlatObjs(last.instances)[p].box]
       /\ \A i \in 1..Len(last.instances) :
             LET res == last.result_instances[i]
                 n == len(last.instances[i])
             IN  /\ res.has_pred_keypoints
                 /\ Len(res.pred_keypoints) = n
                 /\ \A j \in 1..n :
                       /\ Len(res.pred_keypoints[j]) = num_keypoints
                       /\ \A k \in 1..num_keypoints :
                             LET p == Offset(last.instances, i) + j
                                 heatmap == view_row(last.logits,
                                                     (p - 1) * num_keypoints + (k - 1))
                                 box == last.instances[i].objs[j].box
                             IN  res.pred_keypoints[j][k]
                                   = <<<<0, heatmap, box>>, <<1, heatmap, box>>,
                                       <<3, heatmap, box>>>>

C4_Witness ==
    /\ InferenceCall
    /\ Len(last.instances) = 3
    /\ len(last.instances[1]) = 2
    /\ len(last.instances[2]) = 0
    /\ len(last.instances[3]) = 1
    /\ last.instances[1].objs[1].box # last.instances[1].objs[2].box
    /\ last.result_instances[2].has_pred_keypoints
    /\ Len(last.result_instances[3].pred_keypoints) = 1

(***************************************************************************)
(* C5: forward runs layers first and then dispatches on the mode.  In      *)
(* training mode it returns a dict with the single entry loss_keypoint and *)
(* attaches no pred_keypoints; in evaluation mode it returns the instance  *)
(* collections it was given, same order and length, with pred_keypoints    *)
(* attached, and leaves the skip counter alone.  On the base class forward *)
(* ends with NotImplementedError in both modes, with no loss computed, no  *)
(* counter changed and no collection mutated.                              *)
(***************************************************************************)
C5_Result ==
    last.op = "forward"
    => IF last.kind = "Base"
       THEN /\ last.exc = "NotImplementedError"
            /\ last.returned = "none"
            /\ last.loss = NoLoss
            /\ ~last.skipped
            /\ last.result_instances = last.instances
       ELSE /\ last.exc = "none"
            /\ IF last.training
               THEN /\ last.returned = "losses"
                    /\ last.loss_keys = {"loss_keypoint"}
                    /\ last.loss.kind # "none"
                    /\ last.result_instances = last.instances
                    /\ \A i \in 1..Len(last.result_instances) :
                          ~last.result_instances[i].has_pred_keypoints
               ELSE /\ last.returned = "instances"
                    /\ last.loss_keys = {}
                    /\ last.loss = NoLoss
                    /\ ~last.skipped
                    /\ Len(last.result_instances) = Len(last.instances)
                    /\ \A i \in 1..Len(last.instances) :
                          /\ last.result_instances[i].objs = last.instances[i].objs
                          /\ last.result_instances[i].has_pred_keypoints
                          /\ Len(last.result_instances[i].pred_keypoints)
                               = len(last.instances[i])

C5_Frame ==
    (last = NoCall /\ last'.op = "forward" /\ (~last'.training \/ last'.kind = "Base"))
    => /\ TOTAL_SKIPPED' = TOTAL_SKIPPED
       /\ storage' = storage
       /\ head' = head

\* C5: every forward call ends as C5_Result says, and a call in evaluation
\* mode or on the base class changes neither the counter nor the reports.
C5_ForwardDispatch == []C5_Result /\ [][C5_Frame]_vars

C5_Witness ==
    /\ last.op = "forward"
    /\ last.kind = "Sub"
    /\ last.training
    /\ ~last.skipped
    /\ TotalInstances(last.instances) >= 2
    /\ TOTAL_SKIPPED = 1

(***************************************************************************)
(* C6: constructing the spatial attention gate fails at once when          *)
(* kernel_size is not 3 or 7 and completes without error when it is 3      *)
(* (padding 1) or 7 (padding 3); constructing the concrete head, which     *)
(* builds the gate with kernel size 3, completes without error.            *)
(***************************************************************************)
C6_GateConstruction ==
    /\ last.op = "SpatialAttention"
       => IF last.kernel_size \in {3, 7}
          THEN /\ last.exc = "none"
               /\ last.padding = (IF last.kernel_size = 3 THEN 1 ELSE 3)
          ELSE last.exc = "AssertionError"
    /\ (last.op = "construct" /\ last.kind = "KRCNN") => last.exc = "none"

(***************************************************************************)
(* C7: for every input shape (R, C_in, H, W), R >= 0, and every list of    *)
(* convolution stages, the head network built from the configuration       *)
(* produces logits of shape (R, K, 4H, 4W), and its attention gate maps a  *)
(* zero-instance input (0, C, H, W) to shape (0, C, H, W).                 *)
(***************************************************************************)
C7_HeadNetworkShape ==
    (last.op = "construct" /\ last.kind = "KRCNN")
    => /\ head.kind = "KRCNN"
       /\ head.blocks = last.cfg_conv_dims
       /\ \A s \in InputShapes :
             /\ layers(head, [shape |-> s, seed |-> 0]).exc = "none"
             /\ layers(head, [shape |-> s, seed |-> 0]).logits.shape
                  = <<s[1], num_keypoints, 4 * s[3], 4 * s[4]>>
             /\ SpatialAttention_forward_shape(head.spatialAtt, s) = s

(***************************************************************************)
(* C8: when several training-loss calls run concurrently, no increment of  *)
(* the skip counter is lost: once all calls are done the counter is the    *)
(* number of degenerate calls, and every degenerate call has reported the  *)
(* value its own increment produced, all reported values being different.  *)
(***************************************************************************)
C8_NoLostIncrement ==
    (\A t \in Threads : pc[t] = "done")
    => /\ TOTAL_SKIPPED = Cardinality({t \in Threads : reported[t] # 0})
       /\ \A t \in Threads : reported[t] # 0 => reported[t] = tmp[t] + 1
       /\ \A t, u \in Threads :
             (t # u /\ reported[t] # 0 /\ reported[u] # 0) => reported[t] # reported[u]

(***************************************************************************)
(* C9: in the training loss stage, for a batch mixing images with and      *)
(* without instances, the target sequence has R*K entries; entry j is the  *)
(* target of instance j div K, keypoint j mod K, and is paired with row j  *)
(* of the logits viewed as (R*K, S*S); every index in valid lies in        *)
(* [0, R*K); the cross-entropy sum has exactly one term per valid row and  *)
(* none for an invalid row.                                                *)
(***************************************************************************)
C9_TargetsAlignedWithRows ==
    (TrainingCall /\ TotalInstances(last.instances) > 0)
    => LET objs == FlatObjs(last.instances)
           R == TotalInstances(last.instances)
           RK == R * num_keypoints
           Target(j) == objs[(j \div num_keypoints) + 1]
                            .gt_keypoints[(j % num_keypoints) + 1][1]
           pairs == ValidPairs(last.instances)
       IN  /\ last.logits.shape[1] = R
           /\ Len(last.keypoint_targets) = RK
           /\ \A j \in 0..(RK - 1) : last.keypoint_targets[j + 1] = Target(j)
           /\ \A t \in 1..Len(last.valid) :
                 /\ last.valid[t] \in 0..(RK - 1)
                 /\ <<last.valid[t] \div num_keypoints, last.valid[t] % num_keypoints>>
                       \in pairs
                 /\ \A u \in 1..Len(last.valid) : u < t => last.valid[u] < last.valid[t]
           /\ Len(last.valid) = Cardinality(pairs)
           /\ ~last.skipped
              => /\ Len(last.loss.rows) = Cardinality(pairs)
                 /\ Len(last.loss.targets) = Cardinality(pairs)
                 /\ \A t \in 1..Len(last.valid) :
                       /\ last.loss.rows[t] = view_row(last.logits, last.valid[t])
                       /\ last.loss.targets[t] = Target(last.valid[t])

C9_Witness ==
    /\ TrainingCall
    /\ ~last.skipped
    /\ Len(last.instances) = 3
    /\ len(last.instances[1]) = 0
    /\ len(last.instances[2]) = 2
    /\ len(last.instances[3]) = 1
    /\ Len(last.valid) = 3
    /\ last.valid[1] > 0

(***************************************************************************)
(* C10: whenever the controller's training path reaches the division, the  *)
(* normalizer is strictly positive, in visible mode and in fixed mode; the *)
(* zero normalizer that fixed mode computes for an empty image list is     *)
(* never a divisor, because that batch takes the degenerate path.          *)
(***************************************************************************)
C10_PositiveNormalizer ==
    TrainingCall
    => /\ ~last.skipped => (last.loss.kind = "cross_entropy" /\ RPos(last.loss.div))
       /\ (last.normalizer # None /\ RZero(last.normalizer))
          => (last.skipped /\ last.loss.kind = "scaled_sum")
       /\ (Len(last.instances) = 0 /\ ~head.normalize_by_visible_keypoints)
          => RZero(last.normalizer)

C10_Witness ==
    /\ TrainingCall
    /\ ~last.skipped
    /\ head.normalize_by_visible_keypoints
    /\ Len(last.valid) = 1
    /\ TotalInstances(last.instances) = 3
    /\ last.loss.div = RInt(1)

====
